---- MODULE Spec2Model ----
(***************************************************************************)
(* The code generator of brang2 (src/src/compiler.rs) and the step-by-step *)
(* tape interpreter (src/src/interpreter.rs).                              *)
(*                                                                         *)
(* The generator is a record `compiler` holding the fields of the struct   *)
(* Compiler; every method of the struct is an operator from a generator    *)
(* record to the generator record after the call.  The emitted opcodes are *)
(* run by the interpreter, one `step` per transition.                      *)
(*                                                                         *)
(* usize values are represented by their two's-complement reading (the     *)
(* value of `u as isize`): usize::MAX is -1.  With that reading the casts  *)
(* `as usize` / `as isize` are the identity, a wrapped sum is the plain    *)
(* sum, and an addition overflows exactly when it steps from a negative    *)
(* representative to a non-negative one.                                   *)
(***************************************************************************)
EXTENDS Integers, Sequences, FiniteSets, TLC

VARIABLES statements, compiler, pc, interp, build, prim

vars == <<statements, compiler, pc, interp, build, prim>>

----------------------------------------------------------------------------
(* Bounds of the model *)

MaxStmts == 2
MaxOut == 4
MaxMem == 12

----------------------------------------------------------------------------
(* The surface AST, parser.rs *)

Number(n) == [kind |-> "Number", n |-> n]
String(s) == [kind |-> "String", s |-> s]
Identifier(name) == [kind |-> "Identifier", name |-> name]
Binary(lhs, op, rhs) == [kind |-> "Binary", lhs |-> lhs, op |-> op, rhs |-> rhs]
Unary(op, rhs) == [kind |-> "Unary", op |-> op, rhs |-> rhs]
FunctionCall(callee) == [kind |-> "FunctionCall", callee |-> callee]

None == <<>>
Some(x) == <<x>>

VariableDefinition(name, initializer) ==
    [kind |-> "VariableDefinition", name |-> name, initializer |-> initializer]
Assignment(name, value) == [kind |-> "Assignment", name |-> name, value |-> value]
Return == [kind |-> "Return"]
PrintStmt(expr) == [kind |-> "Print", expr |-> expr]
Block(stmts) == [kind |-> "Block", statements |-> stmts]
If(condition, then_branch, else_branch) ==
    [kind |-> "If", condition |-> condition, then_branch |-> then_branch,
     else_branch |-> else_branch]
While(condition, body) == [kind |-> "While", condition |-> condition, body |-> body]
FunctionDefinition(name) == [kind |-> "FunctionDefinition", name |-> name]

----------------------------------------------------------------------------
(* Helpers *)

Abs(x) == IF x < 0 THEN -x ELSE x

repeat(ch, n) == [i \in 1..n |-> ch]

\* usize `a + b` overflows (b >= 0)
UOverflow(a, b) == a < 0 /\ a + b >= 0

\* a HashMap with `key` bound to `value`
insert(map, key, value) ==
    [k \in DOMAIN map \cup {key} |-> IF k = key THEN value ELSE map[k]]

remove(map, key) == [k \in DOMAIN map \ {key} |-> map[k]]

\* The environment a compilation runs under is a record env:
\* env.overflow_checks, whether the build panics on integer overflow (debug)
\* or wraps (release); env.order, the string literals in the order in which
\* an iteration over the HashMap string_literals visits them.
debug == "debug"
release == "release"

Ok(c) == c.result = "Ok"
Err(c) == [c EXCEPT !.result = "Err"]

\* the operator `?` (and the unwinding of a panic): the rest of the function
\* runs on Ok, and any other result is what the function returns
try(c, rest(_)) == IF Ok(c) THEN rest(c) ELSE c

\* the generator after calls made one after the other, each on the generator
\* the call before it left
seq(calls) == calls[Len(calls)]

----------------------------------------------------------------------------
(* Compiler, compiler.rs *)

\* `history` is no field of the struct.  It records which calls wrote what:
\* the `<` and `>` move_ptr has emitted and the offsets it has added to ptr
\* (arrows, net), those print_str_at has (print_arrows, print_net), and the
\* places in the output (marks) where the code laying out a literal's byte
\* starts and where the `]` closing an If without else stands.
new ==
    [ptr |-> 0, stack_ptr |-> 0, output |-> <<>>, variables |-> <<>>,
     string_literals |-> <<>>, result |-> "Ok",
     history |-> [arrows |-> 0, net |-> 0, print_arrows |-> 0, print_net |-> 0,
                  marks |-> {}]]

\* a place in the output noted in history
mark(c, kind, index) ==
    [c EXCEPT !.history.marks =
                @ \cup {[kind |-> kind, at |-> Len(c.output), cell |-> index]}]

emit(c, src) == [c EXCEPT !.output = @ \o src]

malloc(c, size) == [c EXCEPT !.stack_ptr = @ + size]

dealloc(c, size) == [c EXCEPT !.stack_ptr = @ - size]

move_ptr(c, offset) ==
    LET dir == IF offset > 0 THEN ">" ELSE "<"
    IN  emit([c EXCEPT !.ptr = @ + offset,
                       !.history.arrows = @ + Abs(offset),
                       !.history.net = @ + offset],
             repeat(dir, Abs(offset)))

set_ptr(c, index) == move_ptr(c, index - c.ptr)

\* set moving the head by hand, with its own `<` and `>` and its own write of
\* ptr: the mutant C18 is held against
set_moves_by_hand(c, index, value) ==
    emit(emit(emit([c EXCEPT !.ptr = index],
                   repeat(IF index > c.ptr THEN ">" ELSE "<", Abs(index - c.ptr))),
              <<"[", "-", "]">>),
         repeat("+", value))

set(c, index, value) ==
    emit(emit(set_ptr(c, index), <<"[", "-", "]">>), repeat("+", value))

RECURSIVE calloc_init(_, _, _, _)
calloc_init(c, index, i, size) ==
    IF i >= size THEN c ELSE calloc_init(set(c, index + i, 0), index, i + 1, size)

calloc(c, size) ==
    calloc_init([c EXCEPT !.stack_ptr = @ + size], c.stack_ptr, 0, size)

find_factors(n) ==
    LET nsqrt == CHOOSE k \in 0..16 : k * k <= n /\ n < (k + 1) * (k + 1)
    IN  <<nsqrt, n - nsqrt * nsqrt>>

set_with_gcf(c, index, temp, value) ==
    IF value < 16 THEN set(c, index, value)
    ELSE
      LET sroot == find_factors(value)[1]
          rest == find_factors(value)[2]
          c1 == emit(set_ptr(c, temp), repeat("+", sroot))
          c2 == emit(c1, <<"[", "-">>)
          c3 == emit(set_ptr(c2, index), repeat("+", sroot))
          c4 == emit(set_ptr(c3, temp), <<"]">>)
      IN  seq(<<c1, c2, c3, c4,
                IF rest > 0 THEN emit(set_ptr(c4, index), repeat("+", rest)) ELSE c4>>)

\* dadd with the loop of dsub, a copy-and-paste slip: the mutant C4 is held against
dadd_decrements(c, src, dest) ==
    LET c1 == emit(set_ptr(c, src), <<"[", "-">>)
        c2 == emit(set_ptr(c1, dest), <<"-">>)
    IN  seq(<<c, c1, c2, emit(set_ptr(c2, src), <<"]">>)>>)

dadd(c, src, dest) ==
    LET c1 == emit(set_ptr(c, src), <<"[", "-">>)
        c2 == emit(set_ptr(c1, dest), <<"+">>)
    IN  seq(<<c, c1, c2, emit(set_ptr(c2, src), <<"]">>)>>)

\* dsub closing its loop without the set_ptr(src) before it: the mutant C8 is
\* held against
dsub_ends_on_dest(c, src, dest) ==
    LET c1 == emit(set_ptr(c, src), <<"[", "-">>)
        c2 == emit(set_ptr(c1, dest), <<"-">>)
    IN  seq(<<c, c1, c2, emit(c2, <<"]">>)>>)

dsub(c, src, dest) ==
    LET c1 == emit(set_ptr(c, src), <<"[", "-">>)
        c2 == emit(set_ptr(c1, dest), <<"-">>)
    IN  seq(<<c, c1, c2, emit(set_ptr(c2, src), <<"]">>)>>)

\* move_val without the set(dest, 0) before the drain: the mutant C12 is held
\* against
move_val_adds(c, src, dest) == seq(<<c, dadd(c, src, dest)>>)

move_val(c, src, dest) == seq(<<c, set(c, dest, 0), dadd(set(c, dest, 0), src, dest)>>)

\* copy_val without its first loop, the destinations left as they are: the
\* mutant C13 is held against
copy_val_keeps_dests(c, dests, i) == c

RECURSIVE copy_val_clear(_, _, _)
copy_val_clear(c, dests, i) ==
    IF i > Len(dests) THEN c ELSE copy_val_clear(set(c, dests[i], 0), dests, i + 1)

RECURSIVE copy_val_inc(_, _, _)
copy_val_inc(c, dests, i) ==
    IF i > Len(dests) THEN c
    ELSE copy_val_inc(emit(set_ptr(c, dests[i]), <<"+">>), dests, i + 1)

\* copy_val without the dealloc(1) of its temporary: the mutant C7 is held against
copy_val_keeps_tmp(c, src, dests) ==
    LET c1 == copy_val_clear(c, dests, 1)
        tmp == c1.stack_ptr
        c2 == calloc(c1, 1)
        c3 == emit(set_ptr(c2, src), <<"[", "-">>)
        c4 == copy_val_inc(c3, dests, 1)
        c5 == emit(set_ptr(c4, tmp), <<"+">>)
        c6 == emit(set_ptr(c5, src), <<"]">>)
    IN  seq(<<c, c1, c2, c3, c4, c5, c6, move_val(c6, tmp, src)>>)

copy_val(c, src, dests) ==
    LET c1 == copy_val_clear(c, dests, 1)
        tmp == c1.stack_ptr
        c2 == calloc(c1, 1)
        c3 == emit(set_ptr(c2, src), <<"[", "-">>)
        c4 == copy_val_inc(c3, dests, 1)
        c5 == emit(set_ptr(c4, tmp), <<"+">>)
        c6 == emit(set_ptr(c5, src), <<"]">>)
    IN  seq(<<c, c1, c2, c3, c4, c5, c6, dealloc(move_val(c6, tmp, src), 1)>>)

add(c, src, dest) ==
    LET tmp == c.stack_ptr
        c1 == calloc(c, 1)
        c2 == copy_val(c1, src, <<tmp>>)
    IN  seq(<<c, c1, c2, dealloc(dadd(c2, tmp, dest), 1)>>)

sub(c, src, dest) ==
    LET tmp == c.stack_ptr
        c1 == calloc(c, 1)
        c2 == copy_val(c1, src, <<tmp>>)
    IN  seq(<<c, c1, c2, dealloc(dsub(c2, tmp, dest), 1)>>)

\* mul without the set(dest, 0) before its loop: the mutant C10 is held against
mul_keeps_dest(c, src, dest) ==
    LET count == c.stack_ptr
        c1 == calloc(c, 1)
        c2 == copy_val(c1, dest, <<count>>)
        c4 == emit(set_ptr(c2, count), <<"[", "-">>)
        c5 == add(c4, src, dest)
        c6 == emit(set_ptr(c5, count), <<"]">>)
    IN  seq(<<c, c1, c2, c4, c5, c6, dealloc(c6, 1)>>)

mul(c, src, dest) ==
    LET count == c.stack_ptr
        c1 == calloc(c, 1)
        c2 == copy_val(c1, dest, <<count>>)
        c3 == set(c2, dest, 0)
        c4 == emit(set_ptr(c3, count), <<"[", "-">>)
        c5 == add(c4, src, dest)
        c6 == emit(set_ptr(c5, count), <<"]">>)
    IN  seq(<<c, c1, c2, c3, c4, c5, c6, dealloc(c6, 1)>>)

\* todo!(), unwrap() on None, an overflow under overflow checks
panicked(c) == [c EXCEPT !.result = "panic"]

\* div, modulo, eq, neq, lt, leq, gt, geq, and, or
div(c, src, dest) == panicked(c)

RECURSIVE write_str_loop(_, _, _, _, _)
write_str_loop(c, index, string, i, env) ==
    IF i >= Len(string) THEN c
    ELSE IF env.overflow_checks /\ (UOverflow(index, i) \/ UOverflow(index + i, 1))
         THEN panicked(c)
    ELSE write_str_loop(set_with_gcf(mark(c, "layout", index + i + 1),
                                     index + i, index + i + 1, string[i + 1]),
                        index, string, i + 1, env)

write_str(c, index, string, env) ==
    try(write_str_loop(c, index, string, 0, env), LAMBDA x :
          IF env.overflow_checks /\ UOverflow(index, Len(string)) THEN panicked(x)
          ELSE set(x, index + Len(string), 0))

add_string_literal(c, string, env) ==
    LET index == c.stack_ptr
    IN  try(write_str(malloc(c, Len(string) + 1), index, string, env),
            LAMBDA x : [x EXCEPT !.string_literals = insert(@, string, index)])

\* the position in env.order of the last literal the loop of print_str_at
\* finds at `index`; 0 when there is none
last_match(c, index, env) ==
    LET hits == {k \in 1..Len(env.order) :
                   /\ env.order[k] \in DOMAIN c.string_literals
                   /\ c.string_literals[env.order[k]] = index}
    IN  IF hits = {} THEN 0 ELSE CHOOSE k \in hits : \A j \in hits : j <= k

print_str_at(c, index, env) ==
    LET k == last_match(c, index, env)
    IN  IF k = 0 THEN c
        ELSE [emit(set_ptr(c, index), <<"[", ".", ">", "]">>)
                EXCEPT !.ptr = @ + Len(env.order[k]),
                       !.history.print_arrows = @ + 1,
                       !.history.print_net = @ + Len(env.order[k])]

alloc_var(c, name) ==
    LET index == c.stack_ptr
        c1 == calloc(c, 1)
        c2 == [c1 EXCEPT !.variables = insert(@, name, index)]
    IN  IF name \in DOMAIN c.variables THEN Err(c2) ELSE c2

dealloc_var(c, name) ==
    IF name \notin DOMAIN c.variables THEN panicked(c)
    ELSE dealloc([c EXCEPT !.variables = remove(@, name)], c.variables[name])

call(c, callee) == Err(c)

\* the match on the operator in evaluate_expression
binary_op(c, op, src, dest) ==
    CASE op = "Add" -> dadd(c, src, dest)
      [] op = "Sub" -> dsub(c, src, dest)
      [] op = "Mul" -> mul(c, src, dest)
      [] OTHER -> div(c, src, dest)

RECURSIVE evaluate_expression(_, _, _)
evaluate_expression(c, expr, dest) ==
    CASE expr.kind = "Unary" -> panicked(c)
      [] expr.kind = "Binary" ->
           LET lhs == c.stack_ptr
               rhs == c.stack_ptr + 1
               c0 == calloc(calloc(c, 1), 1)
               c1 == evaluate_expression(c0, expr.lhs, lhs)
               c2 == try(c1, LAMBDA x : evaluate_expression(x, expr.rhs, rhs))
               c3 == try(c2, LAMBDA x : binary_op(dadd(x, lhs, dest), expr.op, rhs, dest))
           IN  seq(<<c, c0, try(c3, LAMBDA x : dealloc(x, 2))>>)
      [] expr.kind = "Number" -> set(c, dest, expr.n)
      [] expr.kind = "String" -> panicked(c)
      [] expr.kind = "Identifier" ->
           IF expr.name \in DOMAIN c.variables
           THEN copy_val(c, c.variables[expr.name], <<dest>>)
           ELSE Err(c)
      [] expr.kind = "FunctionCall" -> call(c, expr.callee)

variable_definition(c, name, initializer) ==
    LET index == c.stack_ptr
        init(x) ==
          try(evaluate_expression(calloc(x, 1), initializer[1], x.stack_ptr),
              LAMBDA y : dealloc(move_val(y, x.stack_ptr, index), 1))
    IN  try(alloc_var(c, name), LAMBDA x : IF initializer = None THEN x ELSE init(x))

assignment(c, name, value) ==
    IF name \notin DOMAIN c.variables THEN Err(c)
    ELSE try(evaluate_expression(calloc(c, 1), value, c.stack_ptr),
             LAMBDA x : dealloc(move_val(x, c.stack_ptr, c.variables[name]), 1))

\* the body of the first loop of compile
scan_statement(c, stmt, env) ==
    LET expr == CASE stmt.kind = "VariableDefinition" -> stmt.initializer
                  [] stmt.kind = "Assignment" -> Some(stmt.value)
                  [] stmt.kind = "Print" -> Some(stmt.expr)
                  [] OTHER -> None
    IN  IF stmt.kind = "Return" THEN panicked(c)
        ELSE IF expr = None THEN c
        ELSE IF expr[1].kind = "String" /\ expr[1].s \notin DOMAIN c.string_literals
             THEN add_string_literal(c, expr[1].s, env)
        ELSE c

RECURSIVE evaluate_statement(_, _, _)
RECURSIVE compile_scan(_, _, _, _)
RECURSIVE compile_evaluate(_, _, _, _)
RECURSIVE dealloc_vars(_, _, _)

compile_scan(c, stmts, i, env) ==
    IF i > Len(stmts) \/ ~Ok(c) THEN c
    ELSE compile_scan(scan_statement(c, stmts[i], env), stmts, i + 1, env)

compile_evaluate(c, stmts, i, env) ==
    IF i > Len(stmts) \/ ~Ok(c) THEN c
    ELSE compile_evaluate(evaluate_statement(c, stmts[i], env), stmts, i + 1, env)

compile(c, stmts, env) == compile_evaluate(compile_scan(c, stmts, 1, env), stmts, 1, env)

dealloc_vars(c, varnames, i) ==
    IF i > Len(varnames) \/ ~Ok(c) THEN c
    ELSE dealloc_vars(dealloc_var(c, varnames[i]), varnames, i + 1)

block(c, stmts, env) ==
    LET defs == SelectSeq(stmts, LAMBDA s : s.kind = "VariableDefinition")
        varnames == [k \in 1..Len(defs) |-> defs[k].name]
    IN  try(compile(c, stmts, env), LAMBDA x : dealloc_vars(x, varnames, 1))

\* if_statement without its closing bracket: the mutant C21 is held against
if_statement_unclosed(c, condition, then_branch, else_branch, env) ==
    LET cond == c.stack_ptr
        c1 == evaluate_expression(calloc(c, 1), condition, cond)
        c2 == try(c1, LAMBDA x :
                evaluate_statement(emit(set_ptr(x, cond), <<"[", "[", "-", "]">>),
                                   then_branch, env))
    IN  try(c2, LAMBDA x :
          IF else_branch = None THEN mark(set_ptr(x, cond), "endif", cond)
          ELSE evaluate_statement(emit(set_ptr(x, cond), <<"-", "]", "+", "[">>),
                                  else_branch[1], env))

if_statement(c, condition, then_branch, else_branch, env) ==
    LET cond == c.stack_ptr
        c1 == evaluate_expression(calloc(c, 1), condition, cond)
        c2 == try(c1, LAMBDA x :
                evaluate_statement(emit(set_ptr(x, cond), <<"[", "[", "-", "]">>),
                                   then_branch, env))
        c3 == try(c2, LAMBDA x :
                IF else_branch = None THEN mark(set_ptr(x, cond), "endif", cond)
                ELSE evaluate_statement(emit(set_ptr(x, cond), <<"-", "]", "+", "[">>),
                                        else_branch[1], env))
    IN  try(c3, LAMBDA x : emit(x, <<"]">>))

print_statement(c, expr, env) ==
    IF expr.kind = "String"
    THEN IF expr.s \in DOMAIN c.string_literals
         THEN print_str_at(c, c.string_literals[expr.s], env)
         ELSE panicked(c)
    ELSE panicked(c)

evaluate_statement(c, stmt, env) ==
    CASE stmt.kind = "FunctionDefinition" -> panicked(c)
      [] stmt.kind = "VariableDefinition" ->
           variable_definition(c, stmt.name, stmt.initializer)
      [] stmt.kind = "Return" -> panicked(c)
      [] stmt.kind = "Print" -> print_statement(c, stmt.expr, env)
      [] stmt.kind = "Block" -> block(c, stmt.statements, env)
      [] stmt.kind = "If" ->
           if_statement(c, stmt.condition, stmt.then_branch, stmt.else_branch, env)
      [] stmt.kind = "While" -> panicked(c)
      [] stmt.kind = "Assignment" -> assignment(c, stmt.name, stmt.value)

----------------------------------------------------------------------------
(* Interpreter, interpreter.rs *)

Interpreter ==
    [memory |-> <<0>>, memory_ptr |-> 0, instruction_ptr |-> 0,
     brackets |-> <<>>, output |-> <<>>, panicked |-> FALSE]

panic(m) == [m EXCEPT !.panicked = TRUE]

InBounds(m) == m.memory_ptr >= 0 /\ m.memory_ptr < Len(m.memory)

cell(m) == m.memory[m.memory_ptr + 1]

\* the index of the first bracket after ip; Len(instructions) when there is none
next_bracket(instructions, ip) ==
    LET ahead == {j \in (ip + 1)..(Len(instructions) - 1) :
                    instructions[j + 1] \in {"[", "]"}}
    IN  IF ahead = {} THEN Len(instructions)
        ELSE CHOOSE j \in ahead : \A k \in ahead : j <= k

\* the scan of step for the `]` closing a `[` whose cell is 0: the index the
\* loop breaks at, or -1 when it runs off the end of the instructions.  The
\* instructions that are not brackets leave depth as it is, so the scan is
\* taken from bracket to bracket.
skip_loop(instructions, ip, depth) ==
    LET scan[at \in Int, open \in Int] ==
          LET ip1 == next_bracket(instructions, at)
          IN  IF ip1 >= Len(instructions) THEN -1
              ELSE IF instructions[ip1 + 1] = "]"
                   THEN IF open = 0 THEN ip1 ELSE scan[ip1, open - 1]
              ELSE scan[ip1, open + 1]
    IN  scan[ip, depth]

\* one call of step that does not return false; `input` is the byte getchar
\* delivers, `overflow_checks` the build
step(m, instructions, input, overflow_checks) ==
    IF m.instruction_ptr > Len(instructions) THEN panic(m)
    ELSE
    LET instruction == instructions[m.instruction_ptr + 1]
        next(mm) == [mm EXCEPT !.instruction_ptr = @ + 1]
    IN  CASE instruction = ">" ->
               LET m1 == IF Len(m.memory) - 1 = m.memory_ptr
                         THEN [m EXCEPT !.memory = Append(@, 0)] ELSE m
               IN  IF UOverflow(m.memory_ptr, 1) /\ overflow_checks THEN panic(m1)
                   ELSE next([m1 EXCEPT !.memory_ptr = @ + 1])
          [] instruction = "<" ->
               IF m.memory_ptr = 0 /\ overflow_checks THEN panic(m)
               ELSE next([m EXCEPT !.memory_ptr = @ - 1])
          [] instruction = "+" ->
               IF ~InBounds(m) THEN panic(m)
               ELSE next([m EXCEPT !.memory[m.memory_ptr + 1] = (@ + 1) % 256])
          [] instruction = "-" ->
               IF ~InBounds(m) THEN panic(m)
               ELSE next([m EXCEPT !.memory[m.memory_ptr + 1] = (@ + 255) % 256])
          [] instruction = "," ->
               IF ~InBounds(m) THEN panic(m)
               ELSE next([m EXCEPT !.memory[m.memory_ptr + 1] = input])
          [] instruction = "." ->
               IF ~InBounds(m) THEN panic(m)
               ELSE next([m EXCEPT !.output = Append(@, cell(m))])
          [] instruction = "[" ->
               IF ~InBounds(m) THEN panic(m)
               ELSE IF cell(m) # 0
                    THEN next([m EXCEPT !.brackets = Append(@, m.instruction_ptr)])
               ELSE LET close == skip_loop(instructions, m.instruction_ptr, 0)
                    IN  IF close < 0 THEN panic(m)
                        ELSE next([m EXCEPT !.instruction_ptr = close])
          [] instruction = "]" ->
               IF ~InBounds(m) THEN panic(m)
               ELSE IF cell(m) # 0
                    THEN IF m.brackets = <<>> THEN panic(m)
                         ELSE next([m EXCEPT !.instruction_ptr =
                                                m.brackets[Len(m.brackets)]])
               ELSE next([m EXCEPT !.brackets =
                              IF @ = <<>> THEN @ ELSE SubSeq(@, 1, Len(@) - 1)])
          [] OTHER -> next(next(m))

----------------------------------------------------------------------------
(* Programs: the statement sequences handed to compile *)

StrA == <<65>>
StrHi == <<72, 105>>
StrEmpty == <<>>

StrLits == {StrA, StrHi, StrEmpty}

\* the sequences holding every element of S once: the iteration orders of a HashMap
Orders(S) == {o \in [1..Cardinality(S) -> S] : \A x \in S : \E k \in DOMAIN o : o[k] = x}

Pool ==
    { VariableDefinition("x", Some(Number(1))),
      VariableDefinition("y", None),
      Assignment("x", Number(0)),
      PrintStmt(String(StrA)),
      PrintStmt(String(StrEmpty)),
      Block(<<PrintStmt(String(StrA))>>),
      Block(<<VariableDefinition("a", Some(Number(1))),
              VariableDefinition("b", Some(Number(2)))>>),
      If(Number(0), Block(<<PrintStmt(String(StrA))>>), None),
      If(Number(1), Block(<<PrintStmt(String(StrA))>>), None),
      If(Number(1), Block(<<PrintStmt(String(StrA))>>),
                    Some(Block(<<PrintStmt(String(StrHi))>>))),
      If(Number(0), Block(<<PrintStmt(String(StrA))>>),
                    Some(Block(<<PrintStmt(String(StrHi))>>))),
      If(Number(1), Block(<<>>), None),
      VariableDefinition("z", Some(Binary(Number(1), "Div", Number(1)))),
      Return
    }

Programs == UNION {[1..n -> Pool] : n \in 0..MaxStmts}

\* definitions `let x = e; let y = e';` with arithmetic initializers
DefNames == <<"x", "y">>

DefExprs ==
    { Number(0), Number(3), Identifier("x"),
      Binary(Number(2), "Add", Number(5)),
      Binary(Identifier("x"), "Add", Identifier("x")),
      Binary(Number(200), "Add", Number(100)),
      Binary(Number(3), "Sub", Number(200)),
      Binary(Number(1), "Sub", Identifier("x")),
      Binary(Number(4), "Mul", Number(3)),
      Binary(Number(16), "Mul", Number(16)),
      Binary(Number(2), "Mul", Identifier("x")),
      Binary(Binary(Number(1), "Add", Number(2)), "Mul", Number(3)),
      Binary(Identifier("x"), "Add", Binary(Number(2), "Sub", Number(1)))
    }

\* programs whose literals are printed inside blocks and branches, after
\* other statements have run
NestedPrograms ==
    { <<If(Number(0), Block(<<PrintStmt(String(StrA))>>), None),
        VariableDefinition("x", Some(Number(1))),
        If(Number(1), Block(<<PrintStmt(String(StrA))>>), None)>>,
      <<VariableDefinition("x", Some(Binary(Number(4), "Mul", Number(3)))),
        Block(<<PrintStmt(String(StrHi))>>)>>,
      <<If(Number(1), PrintStmt(String(StrA)), None)>>,
      <<VariableDefinition("x", Some(Number(1))),
        If(Identifier("x"), Block(<<Assignment("x", Number(0)),
                                    PrintStmt(String(StrHi))>>), None)>>,
      <<PrintStmt(String(StrHi)),
        If(Number(1), Block(<<PrintStmt(String(StrHi))>>), None)>>,
      <<VariableDefinition("x", Some(Number(0))),
        If(Identifier("x"), Block(<<PrintStmt(String(StrA))>>), None),
        PrintStmt(String(StrEmpty))>>
    }

DefPrograms ==
    {[k \in DOMAIN e |-> VariableDefinition(DefNames[k], Some(e[k]))] :
        e \in UNION {[1..n -> DefExprs] : n \in 0..Len(DefNames)}}

----------------------------------------------------------------------------
(* compile: one statement of one of its two loops per transition, and the  *)
(* interpreter running the opcodes emitted so far between two of them      *)

Scanning == pc < Len(statements)
Evaluating == pc >= Len(statements) /\ pc < 2 * Len(statements)
Returned == pc = 2 * Len(statements)

Halted == interp.instruction_ptr = Len(compiler.output)

Start ==
    /\ compiler = new
    /\ pc = 0
    /\ interp = Interpreter
    /\ build = "unknown"
    /\ prim = [op |-> "compile"]

Init == statements \in Programs /\ Start

InitDefs == statements \in DefPrograms /\ Start

Builds == IF build = "unknown" THEN {debug, release} ELSE {build}

\* the build is settled by the first transition whose outcome depends on it
Settle(b, differs) == IF build = "unknown" /\ differs THEN b ELSE build

\* the generator after a call, given its outcome under both builds
Outcome(r, b) ==
    /\ compiler' = r[b = debug]
    /\ build' = Settle(b, r[TRUE] # r[FALSE])

ScanStatement ==
    /\ Scanning /\ Ok(compiler) /\ Halted /\ ~interp.panicked
    /\ \E b \in Builds, order \in Orders(StrLits) :
         Outcome([oc \in BOOLEAN |->
                    scan_statement(compiler, statements[pc + 1],
                                   [overflow_checks |-> oc, order |-> order])], b)
    /\ pc' = pc + 1
    /\ UNCHANGED <<statements, interp, prim>>

EvaluateStatement ==
    /\ Evaluating /\ Ok(compiler) /\ Halted /\ ~interp.panicked
    /\ \E b \in Builds, order \in Orders(StrLits) :
         Outcome([oc \in BOOLEAN |->
                    evaluate_statement(compiler, statements[pc - Len(statements) + 1],
                                       [overflow_checks |-> oc, order |-> order])], b)
    /\ pc' = pc + 1
    /\ UNCHANGED <<statements, interp, prim>>

Inputs == {0, 255}

Step ==
    /\ Ok(compiler) /\ ~Halted /\ ~interp.panicked
    /\ Len(interp.output) < MaxOut
    /\ Len(interp.memory) <= MaxMem
    /\ \E b \in Builds :
       \E input \in IF /\ interp.instruction_ptr < Len(compiler.output)
                        /\ compiler.output[interp.instruction_ptr + 1] = ","
                     THEN Inputs ELSE {0} :
         LET r == [oc \in BOOLEAN |-> step(interp, compiler.output, input, oc)]
         IN  /\ interp' = r[b = debug]
             /\ build' = Settle(b, r[TRUE] # r[FALSE])
    /\ UNCHANGED <<statements, compiler, pc, prim>>

Next == ScanStatement \/ EvaluateStatement \/ Step

Spec == Init /\ [][Next]_vars

SpecDefs == InitDefs /\ [][Next]_vars

InitNested == statements \in NestedPrograms /\ Start

SpecNested == InitNested /\ [][Next]_vars

----------------------------------------------------------------------------
(* mul on its own: the generator stands at `top` with its head anywhere    *)
(* below or on it, mul(s, d) is called for two distinct cells below top,   *)
(* and the emitted code runs on a tape holding s0 and d0 in those cells    *)

MaxTop == 3
MaxSmall == 2

\* pairs <<s0, d0>>: all small values, and, at the lowest top, two products
\* that wrap at 256
MulValues(top) ==
    ((0..MaxSmall) \X (0..MaxSmall))
      \cup (IF top = 2 THEN {<<17, 16>>, <<128, 2>>} ELSE {})

\* the head on entry, and what earlier, deallocated temporaries have left in
\* the cells at and above top
Surroundings(top) == {[head |-> 0, residue |-> 0], [head |-> top, residue |-> 5]}

InitMul ==
    \E top \in 2..MaxTop :
    \E v \in MulValues(top), s \in 0..(top - 1), d \in 0..(top - 1),
       around \in Surroundings(top) :
       /\ s # d
       /\ statements = <<>>
       /\ pc = 0
       /\ build = "unknown"
       /\ prim = [op |-> "mul", src |-> s, dest |-> d, s0 |-> v[1], d0 |-> v[2],
                  top |-> top]
       /\ compiler = mul([new EXCEPT !.ptr = around.head, !.stack_ptr = top], s, d)
       /\ interp = [Interpreter EXCEPT
                      !.memory = [i \in 1..(top + 3) |->
                                    IF i = s + 1 THEN v[1]
                                    ELSE IF i = d + 1 THEN v[2]
                                    ELSE IF i > top THEN around.residue ELSE 7],
                      !.memory_ptr = around.head]

NextMul == Step

SpecMul == InitMul /\ [][NextMul]_vars

\* the interpreter runs its steps without pausing
FairSpecMul == SpecMul /\ WF_vars(Step)

----------------------------------------------------------------------------
(* The set and transfer primitives on their own, as mul above: the code of *)
(* one call, or of two calls made one after the other, runs on a tape      *)
(* holding s0 in cell src and d0 in cell dest                              *)

PrimOps == {"set_with_gcf", "move_val_twice", "copy_val_set", "move_val"}

\* the bytes set_with_gcf is asked to write: below 16, a square, a square
\* and a rest, the largest byte
GcfValues == {0, 15, 16, 17, 65, 255}

\* pairs <<s0, d0>>: all small values, and, at the lowest top, a full cell
PrimValues(top) ==
    ((0..MaxSmall) \X (0..MaxSmall))
      \cup (IF top = 2 THEN {<<255, 1>>} ELSE {})

\* the generator after the calls of `op`, made on the generator c
PrimCode(op, c, src, dest, value) ==
    CASE op = "set_with_gcf" -> set_with_gcf(c, src, dest, value)
      [] op = "move_val_twice" -> move_val(move_val(c, src, dest), dest, src)
      [] op = "copy_val_set" -> set(copy_val(c, src, <<dest>>), src, 0)
      [] op = "move_val" -> move_val(c, src, dest)

\* set_with_gcf(src, dest, value) is called with its temporary, dest, at 0
InitPrim ==
    \E top \in 2..MaxTop, op \in PrimOps :
    \E v \in PrimValues(top), s \in 0..(top - 1), d \in 0..(top - 1),
       around \in Surroundings(top), value \in GcfValues :
       /\ s # d
       /\ op = "set_with_gcf" => v[2] = 0
       /\ op # "set_with_gcf" => value = 0
       /\ statements = <<>>
       /\ pc = 0
       /\ build = "unknown"
       /\ prim = [op |-> op, src |-> s, dest |-> d, s0 |-> v[1], d0 |-> v[2],
                  top |-> top, value |-> value]
       /\ compiler = PrimCode(op, [new EXCEPT !.ptr = around.head, !.stack_ptr = top],
                              s, d, value)
       /\ interp = [Interpreter EXCEPT
                      !.memory = [i \in 1..(top + 3) |->
                                    IF i = s + 1 THEN v[1]
                                    ELSE IF i = d + 1 THEN v[2]
                                    ELSE IF i > top THEN around.residue ELSE 7],
                      !.memory_ptr = around.head]

NextPrim == Step

SpecPrim == InitPrim /\ [][NextPrim]_vars

FairSpecPrim == SpecPrim /\ WF_vars(Step)

----------------------------------------------------------------------------
(* The interpreter on its own: run reads a file of any characters and steps *)
(* through them                                                            *)

MaxText == 4
MaxRun == 40

\* the characters of the files: opcodes, and `x` for any other character
Characters == {"+", "-", ">", "[", "]", ".", "x"}

Texts == UNION {[1..n -> Characters] : n \in 1..MaxText}

InitRun ==
    \E text \in Texts :
       /\ statements = <<>>
       /\ pc = 0
       /\ build = "unknown"
       /\ prim = [op |-> "run", text |-> text]
       /\ compiler = [new EXCEPT !.output = text]
       /\ interp = Interpreter

NextRun == Step

SpecRun == InitRun /\ [][NextRun]_vars

----------------------------------------------------------------------------
(* Whole programs: compile has returned, and the interpreter runs what it  *)
(* emitted from an all-zero tape                                            *)

\* programs without While: definitions, assignments, blocks, If with and
\* without else, Print of string literals
WholePrograms ==
    { <<If(Number(1), Block(<<>>), Some(Block(<<>>)))>>,
      <<VariableDefinition("x", Some(Number(0))),
        If(Identifier("x"), Block(<<>>), Some(Block(<<Assignment("x", Number(2))>>)))>>,
      <<VariableDefinition("x", Some(Number(1))),
        If(Identifier("x"), Block(<<Assignment("x", Number(0))>>),
                            Some(Block(<<Assignment("x", Number(2))>>)))>>,
      <<VariableDefinition("x", Some(Binary(Number(4), "Mul", Number(3)))),
        Assignment("x", Binary(Identifier("x"), "Add", Number(1)))>>,
      <<VariableDefinition("x", Some(Number(1))),
        If(Identifier("x"), Block(<<Assignment("x", Number(0))>>), None)>>,
      <<Block(<<VariableDefinition("a", Some(Number(1))),
                VariableDefinition("b", Some(Identifier("a")))>>),
        PrintStmt(String(StrA))>>,
      <<PrintStmt(String(StrHi))>>,
      <<>>
    }

InitWhole ==
    \E b \in {debug, release}, order \in Orders(StrLits) :
       /\ statements \in WholePrograms
       /\ pc = 2 * Len(statements)
       /\ build = b
       /\ prim = [op |-> "compile"]
       /\ compiler = compile(new, statements,
                             [overflow_checks |-> b = debug, order |-> order])
       /\ interp = Interpreter

NextWhole == Step

SpecWhole == InitWhole /\ [][NextWhole]_vars

\* the interpreter runs its steps without pausing
FairSpecWhole == SpecWhole /\ WF_vars(Step)

----------------------------------------------------------------------------
(* Parser::expression, parser.rs, on the tokens of tokenizer.rs *)

Token(kind) == [kind |-> kind]
NumberToken(n) == [kind |-> "Number", n |-> n]
StringToken(s) == [kind |-> "String", s |-> s]
IdentifierToken(name) == [kind |-> "Identifier", name |-> name]

Call(callee, args) == [kind |-> "FunctionCall", callee |-> callee, args |-> args]

is_ignorable(token) == token.kind = "Comment"

is_binary_op(token) ==
    token.kind \in {"Plus", "Minus", "Star", "Slash", "Percent", "EqualEqual",
                    "NotEqual", "Less", "LessEqual", "Greater", "GreaterEqual",
                    "And", "Or"}

\* impl From<Token> for BinaryOp
BinaryOp(token) ==
    CASE token.kind = "Plus" -> "Add"
      [] token.kind = "Minus" -> "Sub"
      [] token.kind = "Star" -> "Mul"
      [] token.kind = "Slash" -> "Div"
      [] token.kind = "Percent" -> "Mod"
      [] token.kind = "EqualEqual" -> "Eq"
      [] token.kind = "NotEqual" -> "Neq"
      [] token.kind = "Less" -> "Lt"
      [] token.kind = "LessEqual" -> "Leq"
      [] token.kind = "Greater" -> "Gt"
      [] token.kind = "GreaterEqual" -> "Geq"
      [] token.kind = "And" -> "And"
      [] token.kind = "Or" -> "Or"

precedence(op) ==
    CASE op = "Or" -> 1
      [] op = "And" -> 2
      [] op \in {"Eq", "Neq"} -> 3
      [] op \in {"Lt", "Leq", "Gt", "Geq"} -> 4
      [] op \in {"Add", "Sub"} -> 5
      [] op \in {"Mul", "Div", "Mod"} -> 6

\* Parser::new: the tokens without the comments
Parser(tokens) ==
    [tokens |-> SelectSeq(tokens, LAMBDA t : ~is_ignorable(t)), current |-> 0]

\* tokens[current]; past the last token the index panics
peek(p) ==
    IF p.current < Len(p.tokens) THEN p.tokens[p.current + 1]
    ELSE Token("index out of bounds")

consume(p) == [p EXCEPT !.current = @ + 1]

\* what a parsing method returns, with the parser it leaves behind
parsed(p, expr) == [result |-> "Ok", expr |-> expr, p |-> p]
failed(p, how) == [result |-> how, expr |-> None, p |-> p]

\* expect(token) on the result r of a method, then `make` of what r parsed
expect(r, kind, make(_)) ==
    IF r.result # "Ok" THEN r
    ELSE IF peek(r.p).kind = "index out of bounds" THEN failed(r.p, "panic")
    ELSE IF peek(r.p).kind = kind THEN parsed(consume(r.p), make(r.expr))
    ELSE failed(r.p, "Err")

RECURSIVE expression(_)
RECURSIVE arguments(_, _)
RECURSIVE climb(_, _, _, _)

\* the loop over the arguments of a call, after its `(`
arguments(p, args) ==
    LET r == expression(p)
    IN  IF r.result # "Ok" THEN r
        ELSE IF peek(r.p).kind = "index out of bounds" THEN failed(r.p, "panic")
        ELSE IF peek(r.p).kind = "RightParen" THEN parsed(r.p, Append(args, r.expr))
        ELSE IF peek(r.p).kind = "Comma" THEN arguments(consume(r.p), Append(args, r.expr))
        ELSE failed(r.p, "Err")

\* the match on the first token of an expression: p is the parser after
\* consume, t the token consumed
primary(p, t) ==
    CASE t.kind = "index out of bounds" -> failed(p, "panic")
      [] t.kind = "Number" -> parsed(p, Number(t.n))
      [] t.kind = "String" -> parsed(p, String(t.s))
      [] t.kind = "Identifier" ->
           IF peek(p).kind = "index out of bounds" THEN failed(p, "panic")
           ELSE IF peek(p).kind # "LeftParen" THEN parsed(p, Identifier(t.name))
           ELSE IF peek(consume(p)).kind = "index out of bounds"
                THEN failed(consume(p), "panic")
           ELSE expect(IF peek(consume(p)).kind # "RightParen"
                       THEN arguments(consume(p), <<>>)
                       ELSE parsed(consume(p), <<>>),
                       "RightParen", LAMBDA args : Call(Identifier(t.name), args))
      [] t.kind = "LeftParen" -> expect(expression(p), "RightParen", LAMBDA e : e)
      [] t.kind = "Minus" ->
           LET r == expression(p)
           IN  IF r.result = "Ok" THEN parsed(r.p, Unary("Neg", r.expr)) ELSE r
      [] t.kind = "Not" ->
           LET r == expression(p)
           IN  IF r.result = "Ok" THEN parsed(r.p, Unary("Not", r.expr)) ELSE r
      [] OTHER -> failed(p, "Err")

\* the while loop of expression, and the Binary built after it
climb(p, lhs, op, rhs) ==
    IF peek(p).kind = "index out of bounds" THEN failed(p, "panic")
    ELSE IF is_binary_op(peek(p)) /\ precedence(op) < precedence(BinaryOp(peek(p)))
    THEN LET r == expression(consume(p))
         IN  IF r.result # "Ok" THEN r
             ELSE climb(r.p, Binary(lhs, op, rhs), BinaryOp(peek(p)), r.expr)
    ELSE parsed(p, Binary(lhs, op, rhs))

expression(p) ==
    LET first == primary(consume(p), peek(p))
    IN  IF first.result # "Ok" THEN first
        ELSE IF peek(first.p).kind = "index out of bounds" THEN failed(first.p, "panic")
        ELSE IF is_binary_op(peek(first.p))
        THEN LET r == expression(consume(first.p))
             IN  IF r.result # "Ok" THEN r
                 ELSE climb(r.p, first.expr, BinaryOp(peek(first.p)), r.expr)
        ELSE first

\* the operators in a chain of operands and binary operators
MaxOps == 2

Operands == {NumberToken(2), NumberToken(3), NumberToken(4), IdentifierToken("x")}

BinaryTokens ==
    {Token(kind) : kind \in {"Plus", "Minus", "Star", "Slash", "Percent", "EqualEqual",
                             "NotEqual", "Less", "LessEqual", "Greater",
                             "GreaterEqual", "And", "Or"}}

\* a op1 b op2 c ...
Chains ==
    UNION {{[k \in 1..(2 * n + 1) |-> IF k % 2 = 1 THEN a[(k + 1) \div 2] ELSE o[k \div 2]] :
              a \in [1..(n + 1) -> Operands], o \in [1..n -> BinaryTokens]} :
           n \in 1..MaxOps}

\* what stands before and after the chain: a comment or nothing, and the `;`
\* of the statement or the end of the tokens
Befores == {<<>>, <<Token("Comment")>>}
Afters == {<<>>, <<Token("Semicolon")>>}

InitParse ==
    \E chain \in Chains, before \in Befores, after \in Afters :
       /\ statements = <<>>
       /\ pc = 0
       /\ build = "unknown"
       /\ compiler = new
       /\ interp = Interpreter
       /\ prim = [op |-> "expression", tokens |-> before \o chain \o after,
                  returned |-> None]

Parse ==
    /\ prim.op = "expression" /\ prim.returned = None
    /\ prim' = [prim EXCEPT !.returned = Some(expression(Parser(prim.tokens)))]
    /\ UNCHANGED <<statements, compiler, pc, interp, build>>

NextParse == Parse

SpecParse == InitParse /\ [][NextParse]_vars

----------------------------------------------------------------------------
(* What the claims speak of *)

\* the tape cell at index i (cells the interpreter has not yet pushed hold 0)
Cell(i) == IF i >= 0 /\ i < Len(interp.memory) THEN interp.memory[i + 1] ELSE 0

\* the opcodes emitted so far have run to their end
AtRest == Ok(compiler) /\ Halted /\ ~interp.panicked

\* the statements lowered so far by the second loop of compile
Lowered ==
    IF pc <= Len(statements) THEN <<>> ELSE SubSeq(statements, 1, pc - Len(statements))

IsPrefix(s, t) == Len(s) <= Len(t) /\ SubSeq(t, 1, Len(s)) = s

\* The meaning of the surface language (spec.md, sections 3, 4.6, 4.7 and 8):
\* the value of an expression modulo 256, and the store and the bytes
\* written after a statement.
RECURSIVE RefValue(_, _)
RefValue(expr, store) ==
    CASE expr.kind = "Number" -> expr.n
      [] expr.kind = "Identifier" -> store[expr.name]
      [] expr.kind = "Binary" ->
           LET l == RefValue(expr.lhs, store)
               r == RefValue(expr.rhs, store)
           IN  CASE expr.op = "Add" -> (l + r) % 256
                 [] expr.op = "Sub" -> (l - r + 256) % 256
                 [] expr.op = "Mul" -> (l * r) % 256
                 [] OTHER -> 0
      [] OTHER -> 0

RECURSIVE RefStatement(_, _)
RECURSIVE RefStatements(_, _, _)
RefStatement(st, stmt) ==
    CASE stmt.kind = "VariableDefinition" ->
           [st EXCEPT !.store = insert(@, stmt.name,
              IF stmt.initializer = None THEN 0
              ELSE RefValue(stmt.initializer[1], st.store))]
      [] stmt.kind = "Assignment" ->
           [st EXCEPT !.store = insert(@, stmt.name, RefValue(stmt.value, st.store))]
      [] stmt.kind = "Print" -> [st EXCEPT !.out = @ \o stmt.expr.s]
      [] stmt.kind = "Block" -> RefStatements(st, stmt.statements, 1)
      [] stmt.kind = "If" ->
           IF RefValue(stmt.condition, st.store) # 0
           THEN RefStatement(st, stmt.then_branch)
           ELSE IF stmt.else_branch = None THEN st
           ELSE RefStatement(st, stmt.else_branch[1])
      [] OTHER -> st

RefStatements(st, stmts, i) ==
    IF i > Len(stmts) THEN st
    ELSE RefStatements(RefStatement(st, stmts[i]), stmts, i + 1)

Ref(stmts) == RefStatements([store |-> <<>>, out |-> <<>>], stmts, 1)

RECURSIVE HasElse(_)
HasElse(stmt) ==
    CASE stmt.kind = "If" ->
           \/ stmt.else_branch # None
           \/ HasElse(stmt.then_branch)
      [] stmt.kind = "Block" ->
           \E k \in DOMAIN stmt.statements : HasElse(stmt.statements[k])
      [] OTHER -> FALSE

----------------------------------------------------------------------------
(* Claims *)

\* C1. Head synchrony: whenever the opcodes emitted so far have run to their
\* end, the simulated head `ptr` is the cell the real head stands on.
C1_HeadSynchrony == AtRest => interp.memory_ptr = compiler.ptr

\* a block holding one Print
IsPrintBlock(stmt) ==
    /\ stmt.kind = "Block"
    /\ Len(stmt.statements) = 1
    /\ stmt.statements[1].kind = "Print"

\* variable definitions followed by an If with an else branch, both branches
\* blocks that print a literal
IfElseProgram ==
    /\ statements # <<>>
    /\ LET last == statements[Len(statements)]
       IN  /\ last.kind = "If"
           /\ last.else_branch # None
           /\ IsPrintBlock(last.then_branch)
           /\ IsPrintBlock(last.else_branch[1])
    /\ \A k \in 1..(Len(statements) - 1) : statements[k].kind = "VariableDefinition"

\* C2. An If with an else branch runs exactly one of its two bodies, once:
\* when the program is some variable definitions followed by an If whose
\* branches are blocks that print a literal, the bytes written are never
\* anything but a prefix of the literal of the branch the condition selects,
\* and they are that literal when the emitted code has run to its end.
C2_IfElseRunsOneBranch ==
    (IfElseProgram /\ Ok(compiler)) =>
        /\ IsPrefix(interp.output, Ref(statements).out)
        /\ (Returned /\ AtRest) => interp.output = Ref(statements).out

\* C3. The code of Print(String s) writes the bytes of s and nothing else,
\* wherever the Print stands: in a program without else branches the bytes
\* written are never anything but a prefix of the literals of the Prints the
\* lowered statements execute, and they are all of them when the emitted code
\* has run to its end.
C3_PrintWritesLiteral ==
    (Ok(compiler) /\ \A k \in DOMAIN statements : ~HasElse(statements[k])) =>
        /\ IsPrefix(interp.output, Ref(Lowered).out)
        /\ AtRest => interp.output = Ref(Lowered).out

\* the variables an expression reads
RECURSIVE Reads(_)
Reads(expr) ==
    CASE expr.kind = "Identifier" -> {expr.name}
      [] expr.kind = "Binary" -> Reads(expr.lhs) \cup Reads(expr.rhs)
      [] OTHER -> {}

\* every initializer reads only variables defined by an earlier statement
DefinedBeforeUse(stmts) ==
    \A k \in DOMAIN stmts :
        Reads(stmts[k].initializer[1]) \subseteq {stmts[j].name : j \in 1..(k - 1)}

\* C4. Definitions with arithmetic initializers: whenever the code of the
\* definitions lowered so far has run to its end, the cell of every defined
\* variable holds the value of its initializer modulo 256 (so a later
\* definition leaves the variables it reads as they were), and the code never
\* fails on the way.
C4_DefinitionsHoldValues ==
    /\ (Ok(compiler) /\ DefinedBeforeUse(Lowered)) => ~interp.panicked
    /\ (AtRest /\ DefinedBeforeUse(Lowered)) =>
        /\ DOMAIN compiler.variables = DOMAIN Ref(Lowered).store
        /\ \A name \in DOMAIN compiler.variables :
              Cell(compiler.variables[name]) = Ref(Lowered).store[name]

\* the state C4 is about: `let x = 3; let y = x + x;` lowered and run to its end
C4_Witness ==
    /\ statements = <<VariableDefinition("x", Some(Number(3))),
                      VariableDefinition("y", Some(Binary(Identifier("x"), "Add",
                                                          Identifier("x"))))>>
    /\ Returned /\ AtRest
    /\ Cell(compiler.variables["x"]) = 3
    /\ Cell(compiler.variables["y"]) = 6

\* C5. Cell accounting: whenever the opcodes emitted so far have run to
\* their end, every tape cell at an index >= stack_ptr holds 0.
C5_CellAccounting ==
    AtRest => \A i \in 0..(Len(interp.memory) - 1) :
                  i >= compiler.stack_ptr => Cell(i) = 0

\* a statement that prints, and so has a literal laid out for it
RECURSIVE HasLiteral(_)
HasLiteral(stmt) ==
    CASE stmt.kind = "Print" -> TRUE
      [] stmt.kind = "If" ->
           \/ HasLiteral(stmt.then_branch)
           \/ stmt.else_branch # None /\ HasLiteral(stmt.else_branch[1])
      [] stmt.kind = "Block" ->
           \E k \in DOMAIN stmt.statements : HasLiteral(stmt.statements[k])
      [] OTHER -> FALSE

\* a program of blocks and Ifs that print nothing: every cell it allocates is
\* a temporary, a condition or a block variable
OnlyScopedAllocations ==
    \A k \in DOMAIN statements :
        /\ statements[k].kind \in {"Block", "If"}
        /\ ~HasLiteral(statements[k])

\* C6. Allocation balance: when compile returns Ok, the sizes handed to
\* malloc and calloc add up to the sizes handed to dealloc, that is,
\* stack_ptr is back at 0.  Stated for the programs that allocate nothing
\* but temporaries and block variables: no top-level definition, no literal.
C6_AllocationBalance ==
    (OnlyScopedAllocations /\ Returned /\ Ok(compiler)) => compiler.stack_ptr = 0

\* The calls of evaluate_expression (C7, C8): the generator on entry and the
\* destination cell.  variable_definition and assignment call it on a
\* destination they have just allocated; the Binary case calls it on each of
\* the two cells it has just allocated.
Entries ==
    { [c |-> calloc(compiler, 1), dest |-> compiler.stack_ptr],
      [c |-> calloc(calloc(compiler, 1), 1), dest |-> compiler.stack_ptr],
      [c |-> calloc(calloc(compiler, 1), 1), dest |-> compiler.stack_ptr + 1] }

\* the expressions built from Number, defined Identifier, Add, Sub and Mul
Arithmetic == {e \in DefExprs : Reads(e) \subseteq DOMAIN compiler.variables}

\* C7. evaluate_expression leaves stack_ptr as it was on entry, whenever it
\* returns Ok on an expression built from Number, Identifier, Add, Sub, Mul.
C7_TopRestored ==
    AtRest =>
      \A en \in Entries, e \in Arithmetic :
         LET r == evaluate_expression(en.c, e, en.dest)
         IN  Ok(r) => r.stack_ptr = en.c.stack_ptr

\* a variable is defined, and a product reading it is lowered: copy_val, add
\* and mul have allocated and released their temporaries
C7_Witness ==
    /\ AtRest
    /\ "x" \in DOMAIN compiler.variables
    /\ LET r == evaluate_expression(calloc(compiler, 1),
                                    Binary(Number(2), "Mul", Identifier("x")),
                                    compiler.stack_ptr)
       IN  Ok(r) /\ r.stack_ptr = compiler.stack_ptr + 1
                 /\ Len(r.output) > Len(compiler.output)

\* C8 as stated: evaluate_expression leaves ptr where it was on entry,
\* whenever it returns Ok.
C8_HeadRestored ==
    AtRest =>
      \A en \in Entries, e \in Arithmetic :
         LET r == evaluate_expression(en.c, e, en.dest)
         IN  Ok(r) => r.ptr = en.c.ptr

\* where evaluate_expression leaves the head: on dest after a Number, on the
\* first cell above the entry top (the temporary of copy_val) after an
\* Identifier, on the right operand's cell after Add and Sub, and on the
\* counter of mul, one above it, after Mul
ExitPtr(e, en) ==
    CASE e.kind = "Number" -> en.dest
      [] e.kind = "Identifier" -> en.c.stack_ptr
      [] e.kind = "Binary" /\ e.op = "Mul" -> en.c.stack_ptr + 2
      [] e.kind = "Binary" /\ e.op # "Mul" -> en.c.stack_ptr + 1

\* C8, amended. evaluate_expression leaves ptr on a cell that the expression
\* and the entry stack_ptr determine (ExitPtr), not where it was on entry.
C8_HeadAtExitPtr ==
    AtRest =>
      \A en \in Entries, e \in Arithmetic :
         LET r == evaluate_expression(en.c, e, en.dest)
         IN  Ok(r) => r.ptr = ExitPtr(e, en)

\* a variable is defined, and reading it moves the head off the destination
C8_Witness ==
    /\ AtRest
    /\ "x" \in DOMAIN compiler.variables
    /\ LET r == evaluate_expression(calloc(compiler, 1), Identifier("x"),
                                    compiler.stack_ptr)
       IN  Ok(r) /\ r.ptr = compiler.stack_ptr + 1 /\ r.ptr # calloc(compiler, 1).ptr

\* C9. Every failure of the generator is an error value: a compilation ends
\* Ok or Err, never in any other way.
C9_FailuresAreErrors == compiler.result \in {"Ok", "Err"}

\* C10. The code of mul(s, d), run on cells holding s0 and d0, ends, and ends
\* with s0 in cell s and (d0 * s0) mod 256 in cell d; it never fails on the way.
C10_MulCorrect ==
    /\ [](~interp.panicked)
    /\ [](Halted => /\ Cell(prim.src) = prim.s0
                    /\ Cell(prim.dest) = (prim.d0 * prim.s0) % 256)
    /\ <>Halted

\* a product that wraps: 17 in cell s, 16 in cell d, the code has run to its end
C10_Witness ==
    /\ prim.op = "mul" /\ prim.s0 = 17 /\ prim.d0 = 16
    /\ Halted
    /\ Cell(prim.dest) = 16

\* C11. The code of set_with_gcf(i, t, v), run with cell t at 0 and cell i
\* holding anything, ends with v in cell i and 0 in cell t.
C11_SetWithGcf ==
    (prim.op = "set_with_gcf" /\ Halted /\ ~interp.panicked) =>
        /\ Cell(prim.src) = prim.value
        /\ Cell(prim.dest) = 0

\* the other cells below top: those the code of a primitive is not given
Untouched ==
    \A i \in 0..(prim.top - 1) : i \notin {prim.src, prim.dest} => Cell(i) = 7

\* C12 as stated: the code of move_val(a, b); move_val(b, a) ends with a0 in
\* cell a and b0 in cell b.
C12_RoundTripIdentity ==
    (prim.op = "move_val_twice" /\ Halted /\ ~interp.panicked) =>
        /\ Cell(prim.src) = prim.s0
        /\ Cell(prim.dest) = prim.d0

\* C12, amended. The code of move_val(a, b); move_val(b, a) ends, and ends
\* with a0 in cell a and 0 in cell b; it never fails on the way.
C12_RoundTripKeepsSource ==
    /\ [](prim.op = "move_val_twice" => ~interp.panicked)
    /\ []((prim.op = "move_val_twice" /\ Halted) =>
            /\ Cell(prim.src) = prim.s0
            /\ Cell(prim.dest) = 0
            /\ Untouched)
    /\ [](prim.op = "move_val_twice" => <>Halted)

\* a full cell moved over a cell that held 1, and back
C12_Witness ==
    /\ prim.op = "move_val_twice" /\ prim.s0 = 255 /\ prim.d0 = 1
    /\ Halted
    /\ Cell(prim.src) = 255 /\ Cell(prim.dest) = 0

\* C13. The code of copy_val(a, [b]); set(a, 0) and the code of
\* move_val(a, b) leave the same cells below top: both end, with a0 in cell b,
\* 0 in cell a and every other cell below top as it was.
C13_CopyThenClearIsMove ==
    /\ [](prim.op \in {"copy_val_set", "move_val"} => ~interp.panicked)
    /\ []((prim.op \in {"copy_val_set", "move_val"} /\ Halted) =>
            /\ Cell(prim.dest) = prim.s0
            /\ Cell(prim.src) = 0
            /\ Untouched)
    /\ [](prim.op \in {"copy_val_set", "move_val"} => <>Halted)

\* a full cell copied over a cell that held 1, then cleared
C13_Witness ==
    /\ prim.op = "copy_val_set" /\ prim.s0 = 255 /\ prim.d0 = 1
    /\ Halted
    /\ Cell(prim.dest) = 255 /\ Cell(prim.src) = 0

\* a block that defines two variables and nothing else
TwoDefinitions ==
    <<VariableDefinition("a", Some(Number(1))), VariableDefinition("b", Some(Number(2)))>>

\* C14. dealloc_var(name) removes name from variables and lowers stack_ptr by
\* exactly 1, whatever cell the variable occupies: on the generator that block
\* has lowered the two definitions with, each call of dealloc_var does so, and
\* the block as a whole leaves stack_ptr two below where its statements left it.
C14_DeallocVarFreesOneCell ==
    AtRest =>
      LET env == [overflow_checks |-> FALSE, order |-> <<>>]
          inner == compile(compiler, TwoDefinitions, env)
          exit == block(compiler, TwoDefinitions, env)
      IN  (Ok(inner) /\ Ok(exit)) =>
            /\ \A name \in {"a", "b"} :
                  /\ name \notin DOMAIN dealloc_var(inner, name).variables
                  /\ dealloc_var(inner, name).stack_ptr = inner.stack_ptr - 1
            /\ exit.stack_ptr = inner.stack_ptr - 2
            /\ DOMAIN exit.variables = DOMAIN compiler.variables

\* C19. Every cell bound in variables lies strictly below stack_ptr, so that no
\* cell malloc or calloc returns later is the cell of a variable in scope.
C19_VariablesBelowTop ==
    Ok(compiler) =>
      \A name \in DOMAIN compiler.variables :
          compiler.variables[name] < compiler.stack_ptr

\* the places of `kind` noted while the output was emitted
Marks(kind) == {mk \in compiler.history.marks : mk.kind = kind}

\* C15. An If without else runs its then-body at most once: whenever the
\* interpreter stands on the `]` closing such an If, the cell under the head
\* is 0, so the loop on the condition cell is not entered a second time.
C15_IfLoopRunsOnce ==
    \A mk \in Marks("endif") :
        (~interp.panicked /\ interp.instruction_ptr = mk.at /\ InBounds(interp))
            => cell(interp) = 0

\* C16. Whenever the code laying out one byte of a string literal starts, the
\* cell set_with_gcf is given as its temporary holds 0.
C16_LayoutTemporaryIsZero ==
    \A mk \in Marks("layout") :
        (~interp.panicked /\ ~Halted /\ interp.instruction_ptr = mk.at)
            => Cell(mk.cell) = 0

\* the literals a statement prints, at any depth
RECURSIVE Printed(_)
Printed(stmt) ==
    CASE stmt.kind = "Print" -> IF stmt.expr.kind = "String" THEN {stmt.expr.s} ELSE {}
      [] stmt.kind = "If" ->
           Printed(stmt.then_branch)
             \cup (IF stmt.else_branch = None THEN {} ELSE Printed(stmt.else_branch[1]))
      [] stmt.kind = "Block" ->
           UNION {Printed(stmt.statements[k]) : k \in DOMAIN stmt.statements}
      [] OTHER -> {}

\* an expression of Number, Identifier, Add, Sub and Mul
RECURSIVE IsArithmetic(_)
IsArithmetic(expr) ==
    CASE expr.kind \in {"Number", "Identifier"} -> TRUE
      [] expr.kind = "Binary" ->
           /\ expr.op \in {"Add", "Sub", "Mul"}
           /\ IsArithmetic(expr.lhs) /\ IsArithmetic(expr.rhs)
      [] OTHER -> FALSE

\* a statement of the forms the generator implements
RECURSIVE Implemented(_)
Implemented(stmt) ==
    CASE stmt.kind = "VariableDefinition" ->
           stmt.initializer = None \/ IsArithmetic(stmt.initializer[1])
      [] stmt.kind = "Assignment" -> IsArithmetic(stmt.value)
      [] stmt.kind = "Print" -> stmt.expr.kind = "String"
      [] stmt.kind = "Block" ->
           \A k \in DOMAIN stmt.statements : Implemented(stmt.statements[k])
      [] stmt.kind = "If" ->
           /\ IsArithmetic(stmt.condition)
           /\ Implemented(stmt.then_branch)
           /\ stmt.else_branch # None => Implemented(stmt.else_branch[1])
      [] OTHER -> FALSE

\* C17. Every literal a Print of the program uses, at any depth, is recorded
\* in string_literals once the first loop of compile has run, before the code
\* of any statement is emitted; and so no lowering of a Print fails to find
\* its literal: a program of implemented forms never ends in a panic.
C17_LiteralsLaidOutFirst ==
    (\A k \in DOMAIN statements : Implemented(statements[k])) =>
        /\ compiler.result # "panic"
        /\ (Ok(compiler) /\ ~Scanning) =>
              UNION {Printed(statements[k]) : k \in DOMAIN statements}
                  \subseteq DOMAIN compiler.string_literals

\* the number of `<` and `>` in a piece of output
Arrows(out) == Cardinality({k \in DOMAIN out : out[k] \in {"<", ">"}})

\* C18 as stated: move_ptr (and set_ptr through it) is the only operation that
\* writes ptr and the only one that emits `<` or `>`: the arrows in the
\* output are those move_ptr has emitted, and ptr is the sum of the offsets
\* move_ptr has added.
C18_OnlyMovePtrMoves ==
    /\ Arrows(compiler.output) = compiler.history.arrows
    /\ compiler.ptr = compiler.history.net

\* C18, amended. move_ptr and print_str_at are the only operations that write
\* ptr and the only ones that emit `<` or `>`: print_str_at emits one `>` in
\* its `[.>]` and adds the literal's length to ptr itself.
C18_OnlyMovePtrAndPrintMove ==
    /\ Arrows(compiler.output) =
          compiler.history.arrows + compiler.history.print_arrows
    /\ compiler.ptr = compiler.history.net + compiler.history.print_net

\* a compilation that has returned Ok after moving the head through move_ptr
\* and through the Prints of a one-byte and a two-byte literal
C18_Witness ==
    /\ Returned /\ Ok(compiler)
    /\ compiler.history.arrows > 0
    /\ compiler.history.print_arrows = 2
    /\ compiler.history.print_net = 3

\* the eight opcodes
Opcodes == {">", "<", "+", "-", ",", ".", "[", "]"}

\* a text without the characters that are not opcodes
strip(text) == SelectSeq(text, LAMBDA ch : ch \in Opcodes)

\* the interpreter after at most MaxRun calls of step on `instructions`, from
\* its initial state
run(instructions) ==
    LET after[n \in 0..MaxRun] ==
          IF n = 0 THEN Interpreter
          ELSE LET m == after[n - 1]
               IN  IF m.panicked \/ m.instruction_ptr = Len(instructions) THEN m
                   ELSE step(m, instructions, 0, TRUE)
    IN  after[MaxRun]

\* C20. Characters that are not opcodes are no-ops: when the text without
\* them runs to its end, the text with them does not fail, and when it has run
\* to its end it has the memory and the output of the run without them.
C20_OtherCharactersAreNoOps ==
    LET plain == strip(prim.text)
        ref == run(plain)
    IN  (prim.op = "run" /\ ~ref.panicked /\ ref.instruction_ptr = Len(plain)) =>
          /\ ~interp.panicked
          /\ Halted => /\ interp.memory = ref.memory
                       /\ interp.output = ref.output

\* the characters the generator emits: the opcodes but `,`
Emitted == {">", "<", "+", "-", "[", "]", "."}

\* the brackets of a text, in their order
brackets(out) == SelectSeq(out, LAMBDA ch : ch \in {"[", "]"})

\* the opened and not yet closed brackets after the first k of a sequence of brackets
depth(br, k) ==
    Cardinality({j \in 1..k : br[j] = "["}) - Cardinality({j \in 1..k : br[j] = "]"})

\* no prefix closes more brackets than it opens, and the whole text closes
\* every bracket it opens
Balanced(out) ==
    LET br == brackets(out)
    IN  /\ \A k \in 1..Len(br) : depth(br, k) >= 0
        /\ depth(br, Len(br)) = 0

\* C21. After every statement lowering that returns Ok the output is
\* bracket-balanced (no prefix has more `]` than `[`, and every `[` is closed)
\* and holds only the characters > < + - [ ] .
C21_OutputBalanced ==
    Ok(compiler) =>
      /\ Balanced(compiler.output)
      /\ \A k \in DOMAIN compiler.output : compiler.output[k] \in Emitted

\* both loops of compile have returned Ok on an If with an else branch next to
\* a second statement that emits brackets of its own
C21_Witness ==
    /\ Returned /\ Ok(compiler)
    /\ Len(statements) = 2
    /\ HasElse(statements[1])
    /\ statements[2].kind \in {"If", "VariableDefinition"}
    /\ Len(brackets(compiler.output)) >= 8

\* C22. The code emitted for a program that compiles successfully halts when
\* run from an all-zero tape: the interpreter reaches the end of the output.
C22_EmittedCodeHalts == <>(Ok(compiler) => Halted)

\* the expression an operand token stands for
Operand(token) ==
    IF token.kind = "Number" THEN Number(token.n) ELSE Identifier(token.name)

\* C23. expression builds binary expressions by precedence: of a chain
\* `a op1 b op2 c` it returns Binary{Binary{a op1 b} op2 c} when
\* precedence(op1) > precedence(op2), and Binary{a op1 Binary{b op2 c}} when
\* precedence(op1) < precedence(op2).
C23_TreeFollowsPrecedence ==
    LET t == Parser(prim.tokens).tokens
        a == Operand(t[1])
        op1 == BinaryOp(t[2])
        b == Operand(t[3])
        op2 == BinaryOp(t[4])
        c == Operand(t[5])
    IN  (/\ prim.op = "expression" /\ prim.returned # None
         /\ Len(t) = 6
         /\ prim.returned[1].result = "Ok") =>
          /\ precedence(op1) > precedence(op2) =>
               prim.returned[1].expr = Binary(Binary(a, op1, b), op2, c)
          /\ precedence(op1) < precedence(op2) =>
               prim.returned[1].expr = Binary(a, op1, Binary(b, op2, c))

====
